---- MODULE Spec2Model ----
(***************************************************************************)
(* Name-expiration tracking and renewal of teleshake: the three variants   *)
(* of fetch_and_save_names / renew_names (name_manager.py, utils.py,       *)
(* main.py) working on the wallet_names.json file, with the wallet API as  *)
(* the environment.                                                        *)
(*                                                                         *)
(* Time is an integer number of ticks, TicksPerDay ticks to the day.  A    *)
(* Python dict is a sequence of <<key, value>> pairs in insertion order.   *)
(* A Python value is a record [t, i, s]: t in {"None","int","str"}; a JSON *)
(* value is a record [t, i, s]: t in {"null","number","string"}.  Strings  *)
(* that hold an ISO date are the pair <<day, tick of day>>.                *)
(***************************************************************************)
EXTENDS Integers, Sequences, FiniteSets, TLC

VARIABLES now, walletNames, file, op, variant, written, pc, cycle, other,
          setup

vars ==
    <<now, walletNames, file, op, variant, written, pc, cycle,
                   other, setup>>

\* ---- bounds ----
MaxLen == 2        \* longest list the wallet API returns
MaxNow == 1        \* last tick of the clock
TicksPerDay == 2   \* resolution of the clock

\* ---- program constants ----
RENEWAL_THRESHOLD_DAYS == 30
FALLBACK_DAYS == 730
LEGACY_FALLBACK_DAYS == 365 * 2

Variants == {"manager", "utils", "main"}

\* ---- Python values ----
PyNone == [t |-> "None", i |-> 0, s |-> <<>>]
PyInt(n) == [t |-> "int", i |-> n, s |-> <<>>]
PyStr(x) == [t |-> "str", i |-> 0, s |-> x]

timedelta(days) == days * TicksPerDay

\* datetime.isoformat(): the date and the time of day, written apart
isoformat(dt) == <<dt \div TicksPerDay, dt % TicksPerDay>>

\* datetime.fromisoformat()
fromisoformat(x) == x[1] * TicksPerDay + x[2]

\* ---- Python dict as a sequence of <<key, value>> ----
EmptyDict == <<>>

DictKeys(d) == {d[j][1] : j \in 1..Len(d)}

DictHas(d, k) == \E j \in 1..Len(d) : d[j][1] = k

DictGet(d, k) == d[CHOOSE j \in 1..Len(d) : d[j][1] = k][2]

\* d[k] = v: an existing key keeps its place, a new key goes last
DictSet(d, k, v) ==
    IF DictHas(d, k)
    THEN [j \in 1..Len(d) |-> IF d[j][1] = k THEN <<k, v>> ELSE d[j]]
    ELSE Append(d, <<k, v>>)

\* ---- the records of the wallet API's name list ----
\* kind: "dict" a JSON object, "str" the JSON string sval, "num" a number
\* stats: "absent", "null", "nondict" (a non-empty string) or "dict"
\* due (stats.daysUntilExpire) and renewal: [t: "absent" | "None" | "int", i]
Absent == [t |-> "absent", i |-> 0]
JInt(n) == [t |-> "int", i |-> n]

DictEntry(hasName, name, stats, due, renewal) ==
    [kind |-> "dict", sval |-> "", hasName |-> hasName, name |-> name,
     stats |-> stats, due |-> due, renewal |-> renewal]

StrEntry(x) ==
    [kind |-> "str", sval |-> x, hasName |-> FALSE, name |-> "",
     stats |-> "absent", due |-> Absent, renewal |-> Absent]

NumEntry ==
    [kind |-> "num", sval |-> "", hasName |-> FALSE, name |-> "",
     stats |-> "absent", due |-> Absent, renewal |-> Absent]

\* records as the node sends them, some of them without a renewal height or
\* without daysUntilExpire
PlainEntries ==
    { DictEntry(TRUE, "a", "dict", JInt(30), JInt(7)),
      DictEntry(TRUE, "a", "dict", JInt(31), JInt(7)),
      DictEntry(TRUE, "b", "dict", JInt(30), Absent),
      DictEntry(TRUE, "b", "dict", Absent, JInt(7)) }

\* entries that are no dict, records without a usable name, records whose
\* stats is missing or is no dict
OddEntries ==
    { StrEntry("error"),
      NumEntry,
      DictEntry(FALSE, "", "dict", JInt(30), JInt(7)),
      DictEntry(TRUE, "", "dict", JInt(30), JInt(7)),
      DictEntry(TRUE, "b", "absent", Absent, JInt(7)),
      DictEntry(TRUE, "b", "null", Absent, JInt(7)),
      DictEntry(TRUE, "b", "nondict", Absent, JInt(7)) }

Entries == PlainEntries \cup OddEntries

\* the lists of at most MaxLen entries with at most one odd entry
Responses ==
    {l \in UNION {[1..n -> Entries] : n \in 0..MaxLen} :
        \A x, y \in 1..Len(l) :
            (l[x] \in OddEntries /\ l[y] \in OddEntries) => x = y}

\* what get_wallet_names_own returned: the error sentinel or a list
ErrorSentinel == [err |-> TRUE, list |-> <<>>]
ListResponse(l) == [err |-> FALSE, list |-> l]

\* `"error" in response`: key lookup on the sentinel dict, membership on a list
ErrorIn(response) ==
    \/ response.err
    \/ \E j \in 1..Len(response.list) :
          response.list[j].kind = "str" /\ response.list[j].sval = "error"

\* ---- the names file ----
NoFile == [exists |-> FALSE, data |-> <<>>]

\* ---- JSON ----
ToJson(v) ==
    IF v.t = "None" THEN [t |-> "null", i |-> 0, s |-> <<>>]
    ELSE IF v.t = "int" THEN [t |-> "number", i |-> v.i, s |-> <<>>]
    ELSE [t |-> "string", i |-> 0, s |-> v.s]

\* null read back as 0
FromJson_nullzero(j) ==
    IF j.t = "null" THEN [t |-> "int", i |-> 0, s |-> <<>>]
    ELSE IF j.t = "number" THEN [t |-> "int", i |-> j.i, s |-> <<>>]
    ELSE [t |-> "str", i |-> 0, s |-> j.s]

FromJson(j) ==
    IF j.t = "null" THEN PyNone
    ELSE IF j.t = "number" THEN PyInt(j.i)
    ELSE PyStr(j.s)

\* json.dump of a dict of dicts: the members in insertion order
json_dump(names_data) ==
    [j \in 1..Len(names_data) |->
        <<names_data[j][1],
          [m \in 1..Len(names_data[j][2]) |->
              <<names_data[j][2][m][1], ToJson(names_data[j][2][m][2])>>]>>]

RECURSIVE LoadMembers(_, _, _)
LoadMembers(text, j, acc) ==
    IF j > Len(text) THEN acc
    ELSE LoadMembers(text, j + 1,
                     DictSet(acc, text[j][1], FromJson(text[j][2])))

RECURSIVE LoadObjects(_, _, _)
LoadObjects(text, j, acc) ==
    IF j > Len(text) THEN acc
    ELSE LoadObjects(text, j + 1,
                     DictSet(acc, text[j][1],
                             LoadMembers(text[j][2], 1, EmptyDict)))

\* json.load of the names file
json_load(text) == LoadObjects(text, 1, EmptyDict)

\* ---- fetch_and_save_names ----
\* the new names merged into the stored mapping
NewNamesData_merge(f) == LoadObjects(f.data, 1, EmptyDict)

\* names_data = {}
NewNamesData(f) == EmptyDict

\* name_info.get("renewal", 0)
RenewalHeight(e) ==
    IF e.renewal.t = "absent" THEN PyInt(0)
    ELSE IF e.renewal.t = "None" THEN PyNone
    ELSE PyInt(e.renewal.i)

\* stats.get("daysUntilExpire") on a stats dict
DaysUntilExpire(e) ==
    IF e.due.t = "int" THEN PyInt(e.due.i) ELSE PyNone

\* a one-year fallback
get_expiration_date_manager_short(e, t) ==
    LET days_until_expire == IF e.stats = "dict" THEN DaysUntilExpire(e)
                             ELSE PyNone
    IN  IF days_until_expire.t = "None"
        THEN t + timedelta(365)
        ELSE t + timedelta(days_until_expire.i)

\* HandshakeNameManager._get_expiration_date, called at clock t
get_expiration_date_manager(e, t) ==
    LET days_until_expire == IF e.stats = "dict" THEN DaysUntilExpire(e)
                             ELSE PyNone
    IN  IF days_until_expire.t = "None"
        THEN t + timedelta(FALLBACK_DAYS)
        ELSE t + timedelta(days_until_expire.i)

\* utils.get_expiration_date / main.get_expiration_date, called at clock t
get_expiration_date_utils(e, t) ==
    IF e.stats \in {"null", "nondict"}
    THEN [raised |-> "AttributeError", value |-> 0]
    ELSE LET days_until_expire == IF e.stats = "dict" THEN DaysUntilExpire(e)
                                  ELSE PyNone
         IN  IF days_until_expire.t = "None"
             THEN [raised |-> "none",
                   value |-> t + timedelta(LEGACY_FALLBACK_DAYS)]
             ELSE [raised |-> "none",
                   value |-> t + timedelta(days_until_expire.i)]

\* (name_info.get("stats") or {}).get("daysUntilExpire")
DaysField_manager(e) ==
    IF e.stats = "nondict" THEN [raised |-> "AttributeError", value |-> PyNone]
    ELSE IF e.stats = "dict" THEN [raised |-> "none", value |-> DaysUntilExpire(e)]
    ELSE [raised |-> "none", value |-> PyNone]

\* name_info.get("stats", {}).get("daysUntilExpire", None)
DaysField_utils(e) ==
    IF e.stats \in {"null", "nondict"}
    THEN [raised |-> "AttributeError", value |-> PyNone]
    ELSE IF e.stats = "dict" THEN [raised |-> "none", value |-> DaysUntilExpire(e)]
    ELSE [raised |-> "none", value |-> PyNone]

\* the record name_manager.py and utils.py store for a name
NameRecord(expiration_date, renewal_height, days_until_expire) ==
    << <<"expiration_date", PyStr(isoformat(expiration_date))>>,
       <<"renewal_height", renewal_height>>,
       <<"days_until_expire", days_until_expire>> >>

\* the record main.py stores for a name
NameRecord_main(expiration_date, renewal_height, days_until_expire) ==
    << <<"expiration_date", PyStr(isoformat(expiration_date))>>,
       <<"days_until_expire", days_until_expire>> >>

\* the body of the try block of name_manager.py for one record
TryRecord_manager(e, t) ==
    LET d == DaysField_manager(e)
    IN  IF d.raised # "none" THEN [raised |-> d.raised, value |-> <<>>]
        ELSE [raised |-> "none",
              value |-> NameRecord(get_expiration_date_manager(e, t),
                                   RenewalHeight(e), d.value)]

\* the body of the try block of utils.py / main.py for one record
TryRecord_utils(v, e, t) ==
    LET x == get_expiration_date_utils(e, t)
        d == DaysField_utils(e)
    IN  IF x.raised # "none" THEN [raised |-> x.raised, value |-> <<>>]
        ELSE IF d.raised # "none" THEN [raised |-> d.raised, value |-> <<>>]
        ELSE [raised |-> "none",
              value |-> IF v = "main"
                        THEN NameRecord_main(x.value, RenewalHeight(e), d.value)
                        ELSE NameRecord(x.value, RenewalHeight(e), d.value)]

\* the clock read while record j is processed: it ticks once after record k
ClockAt(j, k, t0) == IF j <= k THEN t0 ELSE t0 + 1

\* the for loop of HandshakeNameManager.fetch_and_save_names
RECURSIVE FetchLoop_manager(_, _, _, _, _)
FetchLoop_manager(list, j, names_data, k, t0) ==
    IF j > Len(list) THEN [raised |-> "none", data |-> names_data]
    ELSE LET e == list[j]
             r == TryRecord_manager(e, ClockAt(j, k, t0))
         IN  IF e.kind # "dict" \/ ~e.hasName \/ e.name = "" \/ r.raised # "none"
             THEN FetchLoop_manager(list, j + 1, names_data, k, t0)
             ELSE FetchLoop_manager(list, j + 1,
                                    DictSet(names_data, e.name, r.value), k, t0)

\* the for loop of utils.fetch_and_save_names / main.fetch_and_save_names
RECURSIVE FetchLoop_utils(_, _, _, _, _, _)
FetchLoop_utils(v, list, j, names_data, k, t0) ==
    IF j > Len(list) THEN [raised |-> "none", data |-> names_data]
    ELSE LET e == list[j]
             r == TryRecord_utils(v, e, ClockAt(j, k, t0))
         IN  IF e.kind # "dict" THEN [raised |-> "TypeError", data |-> names_data]
             ELSE IF ~e.hasName THEN [raised |-> "KeyError", data |-> names_data]
             ELSE IF r.raised # "none"
             THEN FetchLoop_utils(v, list, j + 1, names_data, k, t0)
             ELSE FetchLoop_utils(v, list, j + 1,
                                  DictSet(names_data, e.name, r.value), k, t0)

\* fetch_and_save_names up to the open(): what it raised, and names_data
FetchResult(v, response, f, k, t0) ==
    IF ErrorIn(response)
    THEN [raised |-> IF response.err THEN "RuntimeError" ELSE "TypeError",
          data |-> EmptyDict]
    ELSE IF v = "manager"
    THEN FetchLoop_manager(response.list, 1, NewNamesData(f), k, t0)
    ELSE FetchLoop_utils(v, response.list, 1, NewNamesData(f), k, t0)

\* the file opened for writing before the response is looked at
FileAfterFetch_truncate(f, result) ==
    IF result.raised # "none" THEN [exists |-> TRUE, data |-> <<>>]
    ELSE [exists |-> TRUE, data |-> json_dump(result.data)]

\* with open(names_file, 'w'): json.dump(names_data, f), reached without a raise
FileAfterFetch(f, result) ==
    IF result.raised # "none" THEN f
    ELSE [exists |-> TRUE, data |-> json_dump(result.data)]

\* ---- load_names ----
\* a missing file read as an empty mapping
load_names_empty(f) ==
    [raised |-> "none", data |-> LoadObjects(f.data, 1, EmptyDict)]

\* HandshakeNameManager.load_names: what it raised, and the mapping returned
load_names(f) ==
    IF ~f.exists THEN [raised |-> "FileNotFoundError", data |-> EmptyDict]
    ELSE [raised |-> "none", data |-> json_load(f.data)]

\* ---- renew_expiring_names / renew_names ----
\* the comparison made strict
Expiring_strict(exp_date, threshold_date) == exp_date < threshold_date

\* exp_date <= threshold_date
Expiring(exp_date, threshold_date) == exp_date <= threshold_date

\* wallet.send_renew(id=..., passphrase=..., name=name, sign=True, broadcast=True)
RenewCall(name) == [name |-> name, sign |-> TRUE, broadcast |-> TRUE]

\* the loop leaving at the first failed renewal
RECURSIVE RenewLoop_abort(_, _, _, _, _, _)
RenewLoop_abort(names_data, j, threshold_date, errs, calls, renewed) ==
    IF j > Len(names_data) THEN [calls |-> calls, renewed |-> renewed]
    ELSE LET name == names_data[j][1]
             exp_date == fromisoformat(DictGet(names_data[j][2],
                                               "expiration_date").s)
         IN  IF ~(exp_date <= threshold_date)
             THEN RenewLoop_abort(names_data, j + 1, threshold_date, errs,
                                  calls, renewed)
             ELSE IF name \in errs
             THEN [calls |-> Append(calls, [name |-> name, sign |-> TRUE,
                                            broadcast |-> TRUE]),
                   renewed |-> renewed]
             ELSE RenewLoop_abort(names_data, j + 1, threshold_date, errs,
                                  Append(calls, [name |-> name, sign |-> TRUE,
                                                 broadcast |-> TRUE]),
                                  Append(renewed, name))

\* the for loop of the three renew functions; errs: the names whose
\* send_renew response carries an error field
RECURSIVE RenewLoop(_, _, _, _, _, _)
RenewLoop(names_data, j, threshold_date, errs, calls, renewed) ==
    IF j > Len(names_data) THEN [calls |-> calls, renewed |-> renewed]
    ELSE LET name == names_data[j][1]
             exp_date == fromisoformat(DictGet(names_data[j][2],
                                               "expiration_date").s)
         IN  IF ~Expiring(exp_date, threshold_date)
             THEN RenewLoop(names_data, j + 1, threshold_date, errs,
                            calls, renewed)
             ELSE IF name \in errs
             THEN RenewLoop(names_data, j + 1, threshold_date, errs,
                            Append(calls, RenewCall(name)), renewed)
             ELSE RenewLoop(names_data, j + 1, threshold_date, errs,
                            Append(calls, RenewCall(name)),
                            Append(renewed, name))

\* the FileNotFoundError not caught
RenewNoFile_raise(v) == "FileNotFoundError"

\* the file is missing: name_manager.py catches load_names' FileNotFoundError
\* and returns [], utils.py and main.py raise it
RenewNoFile(v) ==
    IF v = "manager" THEN "none" ELSE "FileNotFoundError"

\* a whole renew call at clock t: what it raised, its send_renew calls and
\* the list it returned
RenewResult(v, f, t, errs) ==
    IF ~f.exists
    THEN [raised |-> RenewNoFile(v), calls |-> <<>>, renewed |-> <<>>]
    ELSE LET r == RenewLoop(json_load(f.data), 1,
                            t + timedelta(RENEWAL_THRESHOLD_DAYS), errs,
                            <<>>, <<>>)
         IN  [raised |-> "none", calls |-> r.calls, renewed |-> r.renewed]

\* ---- get_soonest_expiring_name / find_soonest_expiring_name ----
\* an Optional value: <<>> for None, <<x>> for x
None == <<>>
Some(x) == <<x>>

\* datetime.strftime: the date and the time of day
strftime(dt) == <<dt \div TicksPerDay, dt % TicksPerDay>>

\* timedelta.days of a difference truncated towards zero
timedelta_days_truncated(delta) ==
    IF delta >= 0 THEN delta \div TicksPerDay
    ELSE 0 - ((0 - delta) \div TicksPerDay)

\* timedelta.days: the whole days of a difference, rounded down
timedelta_days(delta) == delta \div TicksPerDay

\* the comparison letting a later record with the same date win
Sooner_orequal(exp_date, soonest_date) ==
    soonest_date = None \/ exp_date <= soonest_date[1]

\* soonest_date is None or exp_date < soonest_date
Sooner(exp_date, soonest_date) ==
    soonest_date = None \/ exp_date < soonest_date[1]

\* the for loop of the two functions
RECURSIVE SoonestLoop(_, _, _, _)
SoonestLoop(names_data, j, soonest_name, soonest_date) ==
    IF j > Len(names_data)
    THEN [raised |-> "none", name |-> soonest_name, date |-> soonest_date]
    ELSE IF ~DictHas(names_data[j][2], "expiration_date")
    THEN [raised |-> "KeyError", name |-> None, date |-> None]
    ELSE LET exp_date == fromisoformat(DictGet(names_data[j][2],
                                               "expiration_date").s)
         IN  IF Sooner(exp_date, soonest_date)
             THEN SoonestLoop(names_data, j + 1, Some(names_data[j][1]),
                              Some(exp_date))
             ELSE SoonestLoop(names_data, j + 1, soonest_name, soonest_date)

\* {"name": None, "expiration_date": None, "days_until_expire": None}
NoNames ==
    [raised |-> "none", name |-> None, expiration_date |-> None,
     days_until_expire |-> None]

\* the names file opened without looking whether it exists
SoonestNoFile_open(f) ==
    [raised |-> "FileNotFoundError", name |-> None, expiration_date |-> None,
     days_until_expire |-> None]

\* if not os.path.exists(names_file): return the no-names result
SoonestNoFile(f) == NoNames

\* a whole call at clock t; the two functions differ in the format of the
\* date only
SoonestResult(f, t) ==
    IF ~f.exists THEN SoonestNoFile(f)
    ELSE LET names_data == json_load(f.data)
         IN  IF names_data = EmptyDict THEN NoNames
             ELSE LET r == SoonestLoop(names_data, 1, None, None)
                  IN  [raised |-> r.raised, name |-> r.name,
                       expiration_date |->
                           IF r.date = None THEN None
                           ELSE Some(strftime(r.date[1])),
                       days_until_expire |->
                           IF r.date = None THEN None
                           ELSE Some(timedelta_days(r.date[1] - t))]

\* ---- get_status_info / get_wallet_and_node_info ----
\* a string spelled out, so that it can be sliced
ErrorStr == <<"E", "r", "r", "o", "r">>
MockAddress ==
    <<"h", "s", "1", "q", "m", "o", "c", "k", "a", "d", "d", "r", "e", "s",
      "s", "1", "2", "3">>
OtherAddress == <<"h", "s", "1", "q", "x", "y", "z">>

\* s[:n] and s[-n:]
SliceHead(x, n) == SubSeq(x, 1, IF n < Len(x) THEN n ELSE Len(x))
SliceTail(x, n) == SubSeq(x, IF n < Len(x) THEN Len(x) - n + 1 ELSE 1, Len(x))

\* the smallest units in one displayed unit
MICRO == 1000000

\* n / 1_000_000 of an integer n: sign, whole part, millionths
PyFloat(n) ==
    LET a == IF n < 0 THEN 0 - n ELSE n
    IN  [t |-> "float", neg |-> n < 0, whole |-> a \div MICRO,
         micro |-> a % MICRO]

\* hsd.get_info(): the error sentinel or the node's info
NodeInfos ==
    {[error |-> TRUE, hasChain |-> FALSE, hasHeight |-> FALSE, height |-> 0]}
    \cup {[error |-> FALSE, hasChain |-> FALSE, hasHeight |-> FALSE,
           height |-> 0]}
    \cup {[error |-> FALSE, hasChain |-> TRUE, hasHeight |-> FALSE,
           height |-> 0]}
    \cup {[error |-> FALSE, hasChain |-> TRUE, hasHeight |-> TRUE,
           height |-> 268271]}

Amounts == {0, 1, 500000, 123500000}

\* wallet.get_balance(): the error sentinel or the balance fields
BalanceInfos ==
    {[error |-> TRUE, unconfirmed |-> Absent, lockedUnconfirmed |-> Absent]}
    \cup {[error |-> FALSE, unconfirmed |-> u, lockedUnconfirmed |-> l] :
              u \in {Absent} \cup {JInt(n) : n \in Amounts},
              l \in {Absent} \cup {JInt(n) : n \in {0, 1, 500000}}}

\* wallet.get_account_info(): the error sentinel or the account
AccountInfos ==
    {[error |-> TRUE, hasAddress |-> FALSE, receiveAddress |-> <<>>]}
    \cup {[error |-> FALSE, hasAddress |-> FALSE, receiveAddress |-> <<>>]}
    \cup {[error |-> FALSE, hasAddress |-> TRUE, receiveAddress |-> a] :
              a \in {MockAddress, OtherAddress}}

\* the height read without looking for the sentinel   (mutant)
BlockHeight_unchecked(node_info) ==
    IF node_info.hasChain /\ node_info.hasHeight
    THEN PyInt(node_info.height)
    ELSE PyStr("Unknown")

\* node_info.get("chain", {}).get("height", "Unknown"), "Error" on the sentinel
BlockHeight(node_info) ==
    IF node_info.error THEN PyStr("Error")
    ELSE IF node_info.hasChain /\ node_info.hasHeight
    THEN PyInt(node_info.height)
    ELSE PyStr("Unknown")

\* balance_info.get(k, 0)
GetOrZero(x) == IF x = Absent THEN 0 ELSE x.i

\* the locked amount left in the balance   (mutant)
Spendable_withlocked(balance_info) ==
    PyFloat(GetOrZero(balance_info.unconfirmed))

\* (unconfirmed - lockedUnconfirmed) / 1_000_000
Spendable(balance_info) ==
    PyFloat(GetOrZero(balance_info.unconfirmed)
            - GetOrZero(balance_info.lockedUnconfirmed))

\* round(x, 6): a number of millionths has no seventh decimal to round
round6(x) == x

Balance(v, balance_info) ==
    IF balance_info.error THEN PyStr("Error")
    ELSE IF v = "manager" THEN round6(Spendable(balance_info))
    ELSE Spendable(balance_info)

\* acct_info.get("receiveAddress", "Error"), "Error" on the sentinel
FullAddress(acct_info) ==
    IF acct_info.error \/ ~acct_info.hasAddress THEN ErrorStr
    ELSE acct_info.receiveAddress

Shorten(v, full_addr) ==
    IF full_addr = ErrorStr THEN ErrorStr
    ELSE IF v = "manager"
    THEN SliceHead(full_addr, 8) \o <<".", ".", ".">> \o SliceTail(full_addr, 6)
    ELSE SliceHead(full_addr, 6) \o <<".", ".", ".">> \o SliceTail(full_addr, 4)

NoStatus ==
    [raised |-> "none", block_height |-> PyNone, balance |-> PyNone,
     receiving_address |-> <<>>, full_receiving_address |-> None]

StatusResult(v, node_info, balance_info, acct_info) ==
    [raised |-> "none",
     block_height |-> BlockHeight(node_info),
     balance |-> Balance(v, balance_info),
     receiving_address |->
         IF v = "main" THEN FullAddress(acct_info)
         ELSE Shorten(v, FullAddress(acct_info)),
     full_receiving_address |->
         IF v = "main" THEN None ELSE Some(FullAddress(acct_info))]

\* ---- WALLET._make_request ----
Methods == {"get", "post", "put", "delete"}

\* the connection failed, or the server answered with a status and a body
ConnectionFailure == [conn |-> FALSE, status |-> 0, body |-> "undecodable"]
Statuses == {200, 404, 500, 502, 503, 504}
Bodies == {"object", "object_with_error", "array", "undecodable"}
Outcomes ==
    {ConnectionFailure}
    \cup {[conn |-> TRUE, status |-> st, body |-> b] :
              st \in Statuses, b \in Bodies}

\* what a further attempt would be answered with
LaterOutcomes ==
    {[conn |-> TRUE, status |-> 200, body |-> "object"],
     [conn |-> TRUE, status |-> 503, body |-> "undecodable"]}

\* Retry(total=3, backoff_factor=0.5, status_forcelist=[500, 502, 503, 504]),
\* mounted on self.session
RETRY_TOTAL == 3
STATUS_FORCELIST == {500, 502, 503, 504}

\* the retries of the session that requests.request() opens for one call
DEFAULT_RETRIES == 0

\* urllib3 retries a forced status for the idempotent methods only
RetriesStatus(method) == method \in {"get", "put", "delete"}

\* the attempts made with a number of retries, and the last outcome
RECURSIVE Transport(_, _, _, _)
Transport(retries, method, outcomes, k) ==
    LET r == outcomes[k]
        again == \/ ~r.conn
                 \/ r.status \in STATUS_FORCELIST /\ RetriesStatus(method)
    IN  IF again /\ k <= retries /\ k < Len(outcomes)
        THEN Transport(retries, method, outcomes, k + 1)
        ELSE [attempts |-> k, response |-> r]

\* no status taken for a failure   (mutant)
raise_for_status_never(response) == FALSE

\* response.raise_for_status(): HTTPError for a 4xx or 5xx status
raise_for_status(response) ==
    400 <= response.status /\ response.status < 600

\* {"error": f"Request failed: {str(e)}"}
RequestFailed(e) == [error |-> TRUE, msg |-> <<"Request failed", e>>,
                     body |-> "object_with_error"]

\* response.json() returned as it is
Decoded(response) ==
    [error |-> response.body = "object_with_error", msg |-> <<>>,
     body |-> response.body]

make_request(method, outcomes) ==
    LET t == Transport(DEFAULT_RETRIES, method, outcomes, 1)
        response == t.response
        ret == IF ~response.conn THEN RequestFailed("ConnectionError")
               ELSE IF raise_for_status(response)
               THEN RequestFailed("HTTPError")
               ELSE IF response.body = "undecodable"
               THEN RequestFailed("JSONDecodeError")
               ELSE Decoded(response)
    IN  [raised |-> "none", attempts |-> t.attempts, ret |-> ret]

NoRequest ==
    [method |-> "get", outcomes |-> <<ConnectionFailure>>,
     raised |-> "none", attempts |-> 0,
     ret |-> RequestFailed("ConnectionError")]

\* ---- send_telegram_message ----
\* requests.post returned a 2xx answer, or raised
SendOutcomes == {"ok", "ConnectionError", "HTTPError"}

\* the post made with no try around it   (mutant)
send_telegram_message_uncaught(configured, outcome) ==
    [raised |-> IF configured /\ outcome # "ok" THEN outcome ELSE "none",
     posted |-> configured,
     delivered |-> configured /\ outcome = "ok",
     logged |-> ~configured]

\* nothing is posted without a token and a chat id; a RequestException of the
\* post is printed
send_telegram_message(configured, outcome) ==
    IF ~configured
    THEN [raised |-> "none", posted |-> FALSE, delivered |-> FALSE,
          logged |-> TRUE]
    ELSE [raised |-> "none", posted |-> TRUE, delivered |-> outcome = "ok",
          logged |-> outcome # "ok"]

\* ---- main.main: one cycle of the loop ----
\* the steps run in this cycle, the notifications attempted, the exception
\* that reached the handler
NoCycle ==
    [configured |-> FALSE, steps |-> <<>>, sent |-> <<>>, error |-> "none",
     wrote |-> None, calls |-> <<>>, renewed_names |-> <<>>,
     fetched_at |-> 0]

\* the exception swallowed where it is raised   (mutant)
AfterStep_continue(raised, next) == next

\* inside the try: an exception leaves the body for the except clause
AfterStep(raised, next) == IF raised # "none" THEN "error" ELSE next

Caught(c, raised) == IF c.error = "none" THEN raised ELSE c.error

\* ---- function.py: the legacy renewal path ----
\* data/names_expired.json: name -> daysUntilExpire, as names_until_expire
\* writes it
LegacyDays == {50, 99, 100, 150}
LegacyStores ==
    {<<>>}
    \cup {<< <<n, d>> >> : n \in {"a", "b"}, d \in LegacyDays}
    \cup {<< <<x[1], d>>, <<x[2], e>> >> :
              x \in {<<"a", "b">>, <<"b", "a">>},
              d \in LegacyDays, e \in LegacyDays}

\* the days asked for: app/main.py asks for 100
LegacyAsked == {51, 100}

\* expire_in_days(number): the names with fewer days left than number
RECURSIVE expire_in_days(_, _, _)
expire_in_days(names_until_expire, number, j) ==
    IF j > Len(names_until_expire) THEN <<>>
    ELSE IF names_until_expire[j][2] < number
    THEN <<names_until_expire[j][1]>>
            \o expire_in_days(names_until_expire, number, j + 1)
    ELSE expire_in_days(names_until_expire, number, j + 1)

\* renew_names_in_list(days): sendRENEW for each name, its response dropped,
\* and every name appended to the returned list; nothing is printed
renew_names_in_list(names_until_expire, days, errs) ==
    LET names_to_be_renews == expire_in_days(names_until_expire, days, 1)
    IN  [calls |-> names_to_be_renews,
         renew |-> names_to_be_renews,
         logged |-> {}]

NoLegacy == [store |-> <<>>, days |-> 0, errs |-> {}, calls |-> <<>>,
             renew |-> <<>>, logged |-> {}, message |-> <<>>]

\* ---- a second run of the pipeline on the same names file ----
\* where the other run is in `with open(names_file, 'w') as f: json.dump(...)`
\* and the mapping it is writing; pc "none": there is no other run
NoOther == [pc |-> "none", names_data |-> EmptyDict, wrote |-> FALSE]

\* the bytes on disk are not a whole JSON document: the other run has opened
\* the file for writing and not yet closed it
Torn == other.pc \in {"truncated", "partial"}

\* ---- check_wallet_exists / check_wallet_existing ----
\* what get_wallet_info returned: a mapping, or something else; error: the
\* test `"error" in response` is true of it
WalletInfos ==
    {[kind |-> k, error |-> e] : k \in {"dict", "list", "str"},
                                 e \in BOOLEAN}
    \cup {[kind |-> "None", error |-> FALSE]}

\* the wallet created when it is not found, as main.check_and_create_wallet
\* does   (mutant)
check_wallet_create(v, response) ==
    IF response.kind = "dict" /\ response.error
    THEN [raised |-> "none", created |-> TRUE]
    ELSE [raised |-> "none", created |-> FALSE]

\* manager: RuntimeError for the sentinel and for anything that is no dict;
\* utils: RuntimeError for the sentinel, and `in` and .get applied to whatever
\* else came back
check_wallet(v, response) ==
    IF v = "manager"
    THEN [raised |-> IF response.kind # "dict" \/ response.error
                     THEN "RuntimeError" ELSE "none",
          created |-> FALSE]
    ELSE [raised |-> IF response.kind = "None" THEN "TypeError"
                     ELSE IF ~response.error THEN "none"
                     ELSE IF response.kind = "dict" THEN "RuntimeError"
                     ELSE "AttributeError",
          created |-> FALSE]

NoCheck == [response |-> [kind |-> "dict", error |-> FALSE],
            raised |-> "none", created |-> FALSE]

\* ---- interactive_wallet_setup: the texts and the handler ----
\* a text is the sequence of its characters
\* str.lstrip(), str.rstrip() and str.strip()
RECURSIVE lstrip(_)
lstrip(text) ==
    IF text # <<>> /\ Head(text) = " " THEN lstrip(Tail(text)) ELSE text

RECURSIVE rstrip(_)
rstrip(text) ==
    IF text # <<>> /\ text[Len(text)] = " "
    THEN rstrip(SubSeq(text, 1, Len(text) - 1)) ELSE text

strip(text) == rstrip(lstrip(text))

\* text.split(':', 1)
split_colon(text) ==
    IF \A j \in 1..Len(text) : text[j] # ":" THEN <<text>>
    ELSE LET i == CHOOSE i \in 1..Len(text) :
                      /\ text[i] = ":"
                      /\ \A k \in 1..(i - 1) : text[k] # ":"
         IN  <<SubSeq(text, 1, i - 1), SubSeq(text, i + 1, Len(text))>>

\* chat ids: the int of a message, the int or string of the configuration
IntId(n) == [t |-> "int", i |-> n, s |-> <<>>]
StrId(x) == [t |-> "str", i |-> 0, s |-> x]

\* str() of a chat id
str(x) ==
    IF x.t = "str" THEN x.s
    ELSE IF x.i = 42 THEN <<"4", "2">> ELSE <<"7">>

\* the chats a message can come from
MessageChats == {IntId(42), IntId(7)}

\* TELEGRAM_CHAT_ID: an int, a string, or the default ''
ConfiguredChats == {IntId(42), StrId(<<"4", "2">>), StrId(<<>>)}

\* the texts a user can send
Texts ==
    {<<" ", "w", " ", ":", " ", "p", " ">>, <<"w", "p">>, <<":">>,
     <<"w", ":", "p", ":", "q">>}

\* what wallet_instance.unlock_wallet returns: {"success": true},
\* {"success": false}, the error sentinel, or a body that is no dict
UnlockResults ==
    {[kind |-> "dict", success |-> "True", error |-> FALSE],
     [kind |-> "dict", success |-> "False", error |-> FALSE],
     [kind |-> "dict", success |-> "absent", error |-> TRUE],
     [kind |-> "list", success |-> "absent", error |-> FALSE]}

\* the test "error" not in result
Unlocked_noerror(result) == ~result.error

\* result.get('success') is True
Unlocked(result) == result.success = "True"

\* config.json: absent, a JSON object, or unreadable as JSON
Configs ==
    {[state |-> "absent", WALLET_ID |-> None, WALLET_PASSPHRASE |-> None],
     [state |-> "ok", WALLET_ID |-> Some(<<"o">>),
      WALLET_PASSPHRASE |-> Some(<<"x">>)],
     [state |-> "corrupt", WALLET_ID |-> None, WALLET_PASSPHRASE |-> None]}

\* open(CONFIG_FILE, 'w') and json.dump(current_config, f, indent=2)
ConfigWith(wallet_id, passphrase) ==
    [state |-> "ok", WALLET_ID |-> Some(wallet_id),
     WALLET_PASSPHRASE |-> Some(passphrase)]

\* open(CONFIG_FILE, 'w') succeeds or raises OSError
SaveOutcomes == {"ok", "OSError"}

\* one run of the handler on a message of the configured chat.
\* replies[n]: the n-th bot.reply_to call of the run succeeds
handle_wallet_selection(config, status, text, result, replies, save) ==
    LET parts == split_colon(strip(text))
        same == [config |-> config, status |-> status, stop |-> FALSE,
                 wrote |-> FALSE, raised |-> FALSE, outcome |-> "invalid",
                 wallet_id |-> <<>>, passphrase |-> <<>>]
    IN  IF Len(parts) < 2
        THEN [same EXCEPT !.raised = ~replies[1]]
        ELSE LET wallet_id == strip(parts[1])
                 passphrase == strip(parts[2])
                 valid == [same EXCEPT !.wallet_id = wallet_id,
                                       !.passphrase = passphrase]
             IN  IF ~replies[1]
                 THEN [valid EXCEPT !.raised = TRUE, !.outcome = "unverified"]
                 ELSE IF result.kind # "dict"
                 THEN [valid EXCEPT !.raised = ~replies[2],
                                    !.outcome = "node_error"]
                 ELSE IF ~Unlocked(result)
                 THEN [valid EXCEPT !.raised = ~replies[2] /\ ~replies[3],
                                    !.outcome = "denied"]
                 ELSE IF config.state = "corrupt" \/ save # "ok"
                 THEN [valid EXCEPT !.raised = ~replies[2],
                                    !.status = IF replies[2] THEN FALSE ELSE @,
                                    !.outcome = "save_error"]
                 ELSE IF replies[2]
                 THEN [valid EXCEPT !.config = ConfigWith(wallet_id, passphrase),
                                    !.wrote = TRUE, !.status = TRUE,
                                    !.stop = TRUE, !.outcome = "saved"]
                 ELSE [valid EXCEPT !.config = ConfigWith(wallet_id, passphrase),
                                    !.wrote = TRUE,
                                    !.raised = ~replies[3],
                                    !.status = IF replies[3] THEN FALSE ELSE @,
                                    !.outcome = "save_error"]

\* no message handled yet; seq: the parity of the messages seen
NoMessage ==
    [outcome |-> "none", raised |-> FALSE, chat |-> IntId(7), text |-> <<>>,
     result |-> CHOOSE r \in UnlockResults : r.error,
     wallet_id |-> <<>>, passphrase |-> <<>>, seq |-> 0]

\* the setup session: bot and TELEGRAM_CHAT_ID of the module, config.json
\* now and when the session began, status[0], the returned value, the
\* message handled last and the message that made the last write
NoSetup ==
    [pc |-> "none", bot |-> FALSE, chat_id |-> StrId(<<>>),
     config |-> CHOOSE c \in Configs : c.state = "absent",
     initial |-> CHOOSE c \in Configs : c.state = "absent",
     status |-> FALSE, ret |-> None, last |-> NoMessage, wrote |-> None]

\* ---- the operation that has just returned ----
NoOp ==
    [kind |-> "none", response |-> ErrorSentinel,
     raised |-> "none", built |-> EmptyDict, fileBefore |-> NoFile,
     t0 |-> 0, calls |-> <<>>, errs |-> {}, ret |-> <<>>,
     loaded |-> EmptyDict, afterFetch |-> FALSE, soonest |-> NoNames,
     status |-> NoStatus, request |-> NoRequest, legacy |-> NoLegacy,
     torn |-> "no", check |-> NoCheck, before |-> None,
     node_info |-> CHOOSE x \in NodeInfos : x.error,
     balance_info |-> CHOOSE x \in BalanceInfos : x.error,
     acct_info |-> CHOOSE x \in AccountInfos : x.error]

Init ==
    /\ now = 0
    /\ walletNames \in Responses
    /\ file = NoFile
    /\ op = NoOp
    /\ variant \in Variants
    /\ written = FALSE
    /\ pc = "idle"
    /\ cycle = NoCycle
    /\ other = NoOther
    /\ setup = NoSetup

FetchStep ==
    \E fail \in BOOLEAN :
      LET response == IF fail THEN ErrorSentinel ELSE ListResponse(walletNames)
          n == Len(response.list)
      IN  \E k \in {n} \cup 1..n :
            LET result == FetchResult(variant, response, file, k, now)
            IN  /\ k < n => now < MaxNow
                /\ now' = IF k < n THEN now + 1 ELSE now
                /\ file' = FileAfterFetch(file, result)
                /\ op' = [NoOp EXCEPT !.kind = "fetch",
                                      !.response = response,
                                      !.raised = result.raised,
                                      !.built = result.data,
                                      !.fileBefore = file, !.t0 = now]
                /\ written' = (written \/ result.raised = "none")
                /\ UNCHANGED <<walletNames, variant, other, setup>>

\* the names file with the renewed names taken out of it
FileAfterRenew_prune(f, r) ==
    IF r.raised # "none" \/ r.renewed = <<>> THEN f
    ELSE [exists |-> TRUE,
          data |-> json_dump(SelectSeq(json_load(f.data),
                       LAMBDA e : \A j \in 1..Len(r.renewed) :
                                      r.renewed[j] # e[1]))]

\* the names file after a renew call: the renew functions open it for
\* reading only
FileAfterRenew(f, r) == f

\* errs: the requested names whose send_renew response carries an error
RenewStep ==
    LET asked == RenewResult(variant, file, now, {}).calls
    IN  \E errs \in SUBSET {asked[j].name : j \in 1..Len(asked)} :
          LET r == RenewResult(variant, file, now, errs)
          IN  /\ op' = [NoOp EXCEPT !.kind = "renew", !.raised = r.raised,
                                    !.calls = r.calls, !.ret = r.renewed,
                                    !.errs = errs, !.fileBefore = file,
                                    !.t0 = now,
                                    !.before =
                                        IF op.kind = "renew" /\ op.t0 = now
                                        THEN Some([raised |-> op.raised,
                                                   calls |-> op.calls])
                                        ELSE None]
              /\ file' = FileAfterRenew(file, r)
              /\ UNCHANGED <<now, walletNames, variant, written, other, setup>>

Fetch == FetchStep /\ UNCHANGED <<pc, cycle>>

Renew == RenewStep /\ UNCHANGED <<pc, cycle>>

Load ==
    /\ variant = "manager"
    /\ LET r == load_names(file)
       IN  op' = [NoOp EXCEPT !.kind = "load", !.raised = r.raised,
                              !.loaded = r.data, !.fileBefore = file,
                              !.t0 = now,
                              !.afterFetch = (op.kind = "fetch"
                                              /\ op.raised = "none"),
                              !.built = op.built]
    /\ UNCHANGED <<now, walletNames, file, variant, written, pc, cycle,
                   other, setup>>

Soonest ==
    /\ variant \in {"manager", "utils"}
    /\ op' = [NoOp EXCEPT !.kind = "soonest",
                          !.soonest = SoonestResult(file, now),
                          !.raised = SoonestResult(file, now).raised,
                          !.fileBefore = file, !.t0 = now]
    /\ UNCHANGED <<now, walletNames, file, variant, written, pc, cycle,
                   other, setup>>

\* the clock advances between operations; op describes the operation that
\* has just returned and is forgotten when the environment moves
Tick ==
    /\ now < MaxNow
    /\ now' = now + 1
    /\ op' = NoOp
    /\ UNCHANGED <<walletNames, file, variant, written, pc, cycle,
                   other, setup>>

\* the wallet stops owning the first of its names
NodeDrop ==
    /\ walletNames # <<>>
    /\ walletNames' = Tail(walletNames)
    /\ op' = NoOp
    /\ UNCHANGED <<now, file, variant, written, pc, cycle,
                   other, setup>>

Next ==
    \/ Fetch
    \/ Renew
    \/ Load
    \/ Soonest
    \/ Tick
    \/ NodeDrop

Spec == Init /\ [][Next]_vars

\* ---- the status summary over every outcome of its three calls ----
StatusStep(Ns, Bs, As) ==
    \E node_info \in Ns, balance_info \in Bs, acct_info \in As :
        /\ op' = [NoOp EXCEPT !.kind = "status",
                              !.status = StatusResult(variant, node_info,
                                                      balance_info, acct_info),
                              !.node_info = node_info,
                              !.balance_info = balance_info,
                              !.acct_info = acct_info,
                              !.t0 = now]
        /\ UNCHANGED <<now, walletNames, file, variant, written, other, setup>>

Status ==
    /\ StatusStep(NodeInfos, BalanceInfos, AccountInfos)
    /\ UNCHANGED <<pc, cycle>>

InitStatus ==
    /\ now = 0
    /\ walletNames = <<>>
    /\ variant \in Variants
    /\ file = NoFile
    /\ op = NoOp
    /\ written = FALSE
    /\ pc = "idle"
    /\ cycle = NoCycle
    /\ other = NoOther
    /\ setup = NoSetup

NextStatus == Status

SpecStatus == InitStatus /\ [][NextStatus]_vars

\* ---- one request of the API client, over every answer of the server ----
Request ==
    \E method \in Methods, first \in Outcomes, later \in LaterOutcomes :
        LET outcomes == <<first, later, later, later>>
            r == make_request(method, outcomes)
        IN  /\ op' = [NoOp EXCEPT !.kind = "request",
                                  !.request = [method |-> method,
                                               outcomes |-> outcomes,
                                               raised |-> r.raised,
                                               attempts |-> r.attempts,
                                               ret |-> r.ret],
                                  !.t0 = now]
            /\ UNCHANGED <<now, walletNames, file, variant, written, pc, cycle,
                   other, setup>>

InitApi ==
    /\ now = 0
    /\ walletNames = <<>>
    /\ variant = "manager"
    /\ file = NoFile
    /\ op = NoOp
    /\ written = FALSE
    /\ pc = "idle"
    /\ cycle = NoCycle
    /\ other = NoOther
    /\ setup = NoSetup

NextApi == Request

SpecApi == InitApi /\ [][NextApi]_vars

\* ---- the looped pipeline of main.main ----
MainFetch ==
    /\ pc = "fetch"
    /\ FetchStep
    /\ pc' = AfterStep(op'.raised, "renew")
    /\ cycle' = [cycle EXCEPT !.steps = Append(@, "fetch"),
                              !.error = Caught(cycle, op'.raised),
                              !.wrote = IF op'.raised = "none"
                                        THEN Some(file') ELSE @,
                              !.fetched_at = now]

MainRenew ==
    /\ pc = "renew"
    /\ RenewStep
    /\ pc' = AfterStep(op'.raised, "status")
    /\ cycle' = [cycle EXCEPT !.steps = Append(@, "renew"),
                              !.error = Caught(cycle, op'.raised),
                              !.calls = op'.calls,
                              !.renewed_names = op'.ret]

MainStatus ==
    /\ pc = "status"
    /\ StatusStep({x \in NodeInfos : x.error \/ x.hasHeight},
                  {x \in BalanceInfos :
                       x.error \/ (x.unconfirmed = JInt(123500000)
                                   /\ x.lockedUnconfirmed = JInt(0))},
                  {x \in AccountInfos :
                       x.error \/ x.receiveAddress = MockAddress})
    /\ pc' = AfterStep(op'.raised, "notify")
    /\ cycle' = [cycle EXCEPT !.steps = Append(@, "status"),
                              !.error = Caught(cycle, op'.raised)]

\* send_telegram_message(message), the last statement of the try
\* the renewal lines with the test "renewed_names is not None"
RenewalLines_notnone(renewed_names) ==
    <<<<"Renewed the following names:">>>>
    \o [j \in 1..Len(renewed_names) |-> <<"- ", renewed_names[j]>>]

\* the lines after "RENEWAL:"; a line is the tuple of its parts
RenewalLines(renewed_names) ==
    IF renewed_names # <<>>
    THEN <<<<"Renewed the following names:">>>>
         \o [j \in 1..Len(renewed_names) |-> <<"- ", renewed_names[j]>>]
    ELSE <<<<"No names required renewal">>>>

\* message_lines of one cycle
Summary(info, renewed_names) ==
    <<<<"Teleshake Update">>, <<"INFO:">>,
      <<"Block Height: ", info.block_height>>,
      <<"Balance: ", info.balance, " HNS">>,
      <<"Address: ", info.receiving_address>>,
      <<"RENEWAL:">>>>
    \o RenewalLines(renewed_names)

MainNotify ==
    /\ pc = "notify"
    /\ \E outcome \in SendOutcomes :
         LET r == send_telegram_message(cycle.configured, outcome)
         IN  /\ pc' = AfterStep(r.raised, "sleep")
             /\ cycle' = [cycle EXCEPT
                              !.sent = Append(@, [kind |-> "summary",
                                                  send |-> r,
                                                  message |->
                                                      Summary(op.status,
                                                          cycle.renewed_names)]),
                              !.error = Caught(cycle, r.raised)]
    /\ op' = [NoOp EXCEPT !.kind = "notify", !.t0 = now]
    /\ UNCHANGED <<now, walletNames, file, variant, written, other, setup>>

\* except Exception as e: send_telegram_message(f"Error ...: {e}")
MainError ==
    /\ pc = "error"
    /\ \E outcome \in SendOutcomes :
         LET r == send_telegram_message(cycle.configured, outcome)
         IN  /\ pc' = IF r.raised # "none" THEN "crashed" ELSE "sleep"
             /\ cycle' = [cycle EXCEPT
                              !.sent = Append(@, [kind |-> "error",
                                                  send |-> r,
                                                  message |->
                                                      <<<<"Error in Handshake Wallet Update: ",
                                                          cycle.error>>>>])]
    /\ op' = [NoOp EXCEPT !.kind = "notify", !.t0 = now]
    /\ UNCHANGED <<now, walletNames, file, variant, written, other, setup>>

\* time.sleep(LOOP_PERIOD_SECONDS), then the next turn of while True
MainSleep ==
    /\ pc = "sleep"
    /\ \E d \in {0, 1} :
         /\ now + d <= MaxNow
         /\ now' = now + d
    /\ pc' = "fetch"
    /\ cycle' = [NoCycle EXCEPT !.configured = cycle.configured]
    /\ op' = NoOp
    /\ UNCHANGED <<walletNames, file, variant, written, other, setup>>

InitMain ==
    /\ now = 0
    /\ walletNames \in Responses
    /\ variant = "main"
    /\ file = NoFile
    /\ op = NoOp
    /\ written = FALSE
    /\ pc = "fetch"
    /\ cycle \in {[NoCycle EXCEPT !.configured = c] : c \in BOOLEAN}
    /\ other = NoOther
    /\ setup = NoSetup

NextMain ==
    \/ MainFetch
    \/ MainRenew
    \/ MainStatus
    \/ MainNotify
    \/ MainError
    \/ MainSleep

SpecMain == InitMain /\ [][NextMain]_vars

\* the process is scheduled: a step of the loop that can be taken is taken
\* (the wallet owning at most one name: the loop does not depend on more)
InitLoop == InitMain /\ Len(walletNames) <= 1

SpecMainFair == InitLoop /\ [][NextMain]_vars /\ WF_vars(NextMain)

\* ---- app/main.py: z = renew_names_in_list(days), then "Renewed names z" ----
\* errs: the names whose sendRENEW response reports an error
LegacyRenew ==
    \E store \in LegacyStores, days \in LegacyAsked :
      LET asked == expire_in_days(store, days, 1)
      IN  \E errs \in SUBSET {asked[j] : j \in 1..Len(asked)} :
            LET r == renew_names_in_list(store, days, errs)
            IN  /\ op' = [NoOp EXCEPT
                            !.kind = "legacy_renew",
                            !.legacy = [store |-> store, days |-> days,
                                        errs |-> errs, calls |-> r.calls,
                                        renew |-> r.renew,
                                        logged |-> r.logged,
                                        message |-> r.renew],
                            !.t0 = now]
                /\ UNCHANGED <<now, walletNames, file, variant, written,
                               pc, cycle,
                   other, setup>>

InitLegacy ==
    /\ now = 0
    /\ walletNames = <<>>
    /\ variant = "main"
    /\ file = NoFile
    /\ op = NoOp
    /\ written = FALSE
    /\ pc = "idle"
    /\ cycle = NoCycle
    /\ other = NoOther
    /\ setup = NoSetup

NextLegacy == LegacyRenew

SpecLegacy == InitLegacy /\ [][NextLegacy]_vars

\* ---- the soonest-expiring functions over any names file ----
\* a names file written by hand: records with an expiration_date only, as
\* test_find_soonest_expiring_name writes them, days days after clock 0
HandRecord(name, d) ==
    <<name, << <<"expiration_date", ToJson(PyStr(isoformat(timedelta(d))))>> >> >>

HandDays == {0, 5, 10}

HandStores ==
    {[exists |-> TRUE, data |-> <<>>]}
    \cup {[exists |-> TRUE, data |-> <<HandRecord(n, d)>>] :
              n \in {"a", "b"}, d \in HandDays}
    \cup {[exists |-> TRUE, data |-> <<HandRecord(x[1], d), HandRecord(x[2], e)>>] :
              x \in {<<"a", "b">>, <<"b", "a">>}, d \in HandDays, e \in HandDays}

\* the names files fetch_and_save_names of variant v writes at clock 0
FetchedStores(v) ==
    {FileAfterFetch(NoFile, FetchResult(v, ListResponse(l), NoFile, Len(l), 0)) :
        l \in Responses}

InitStore ==
    /\ now = 0
    /\ walletNames = <<>>
    /\ variant \in {"manager", "utils"}
    /\ file \in HandStores \cup FetchedStores(variant)
    /\ op = NoOp
    /\ written = FALSE
    /\ pc = "idle"
    /\ cycle = NoCycle
    /\ other = NoOther
    /\ setup = NoSetup

NextStore ==
    \/ Soonest
    \/ Tick

SpecStore == InitStore /\ [][NextStore]_vars

\* ---- startup: the wallet check, then the operations ----
\* HandshakeNameManager.__init__ ends with check_wallet_exists; an exception
\* leaves the constructor and there is no manager to call
StartCheck ==
    /\ pc = "start"
    /\ \E response \in WalletInfos :
         LET r == check_wallet(variant, response)
         IN  /\ op' = [NoOp EXCEPT !.kind = "check",
                                   !.raised = r.raised,
                                   !.check = [response |-> response,
                                              raised |-> r.raised,
                                              created |-> r.created],
                                   !.t0 = now]
             /\ pc' = IF r.raised # "none" THEN "failed" ELSE "ready"
    /\ UNCHANGED <<now, walletNames, file, variant, written, cycle, other, setup>>

StartFetch == pc = "ready" /\ FetchStep /\ UNCHANGED <<pc, cycle>>

StartRenew == pc = "ready" /\ RenewStep /\ UNCHANGED <<pc, cycle>>

StartStatus ==
    /\ pc = "ready"
    /\ StatusStep({x \in NodeInfos : x.error \/ x.hasHeight},
                  {x \in BalanceInfos : x.error},
                  {x \in AccountInfos : x.error})
    /\ UNCHANGED <<pc, cycle>>

InitStart ==
    /\ now = 0
    /\ walletNames \in {l \in Responses : Len(l) <= 1}
    /\ variant \in {"manager", "utils"}
    /\ file = NoFile
    /\ op = NoOp
    /\ written = FALSE
    /\ pc = "start"
    /\ cycle = NoCycle
    /\ other = NoOther
    /\ setup = NoSetup

NextStart ==
    \/ StartCheck
    \/ StartFetch
    \/ StartRenew
    \/ StartStatus

SpecStart == InitStart /\ [][NextStart]_vars

\* ---- one cycle: fetch, some time, renew ----
\* the time between the fetch and the renew step: none, a tick, and the two
\* sides of FALLBACK_DAYS - RENEWAL_THRESHOLD_DAYS days
Elapsed ==
    {0, 1,
     timedelta(FALLBACK_DAYS - RENEWAL_THRESHOLD_DAYS) - 1,
     timedelta(FALLBACK_DAYS - RENEWAL_THRESHOLD_DAYS)}

CycleFetch ==
    /\ pc = "fetch"
    /\ FetchStep
    /\ pc' = AfterStep(op'.raised, "wait")
    /\ cycle' = [cycle EXCEPT !.steps = Append(@, "fetch"),
                              !.error = Caught(cycle, op'.raised),
                              !.wrote = IF op'.raised = "none"
                                        THEN Some(file') ELSE @,
                              !.fetched_at = now]

CycleElapse ==
    /\ pc = "wait"
    /\ \E d \in Elapsed : now' = now + d
    /\ pc' = "renew"
    /\ UNCHANGED <<walletNames, file, op, variant, written, cycle, other, setup>>

CycleRenew ==
    /\ pc = "renew"
    /\ RenewStep
    /\ pc' = AfterStep(op'.raised, "done")
    /\ cycle' = [cycle EXCEPT !.steps = Append(@, "renew"),
                              !.error = Caught(cycle, op'.raised),
                              !.calls = op'.calls,
                              !.renewed_names = op'.ret]

InitCycle ==
    /\ now = 0
    /\ walletNames \in Responses
    /\ variant \in Variants
    /\ file = NoFile
    /\ op = NoOp
    /\ written = FALSE
    /\ pc = "fetch"
    /\ cycle = NoCycle
    /\ other = NoOther
    /\ setup = NoSetup

NextCycle ==
    \/ CycleFetch
    \/ CycleElapse
    \/ CycleRenew

SpecCycle == InitCycle /\ [][NextCycle]_vars

\* ---- interactive_wallet_setup: the session ----
\* the guard on bot and TELEGRAM_CHAT_ID, and the prompt
SetupStart ==
    /\ setup.pc = "start"
    /\ IF ~setup.bot \/ setup.chat_id = StrId(<<>>)
       THEN setup' = [setup EXCEPT !.pc = "returned", !.ret = Some(FALSE)]
       ELSE \E sent \in BOOLEAN :
              setup' = IF sent
                       THEN [setup EXCEPT !.pc = "polling", !.status = FALSE]
                       ELSE [setup EXCEPT !.pc = "returned",
                                          !.ret = Some(FALSE)]
    /\ UNCHANGED <<now, walletNames, file, op, variant, written, pc, cycle,
                   other>>

\* a text message arrives while the bot polls, or in the batch being
\* processed when stop_polling was called
SetupMessage ==
    /\ setup.pc \in {"polling", "stopping"}
    /\ \E chat \in MessageChats, text \in Texts :
         LET seen == [NoMessage EXCEPT !.chat = chat, !.text = text,
                                       !.seq = 1 - setup.last.seq]
         IN  IF str(chat) # str(setup.chat_id)
             THEN setup' = [setup EXCEPT !.last =
                                [seen EXCEPT !.outcome = "ignored"]]
             ELSE \E result \in UnlockResults, replies \in [1..3 -> BOOLEAN],
                     save \in SaveOutcomes :
                    LET h == handle_wallet_selection(setup.config,
                                 setup.status, text, result, replies, save)
                        m == [seen EXCEPT !.outcome = h.outcome,
                                          !.raised = h.raised,
                                          !.result = result,
                                          !.wallet_id = h.wallet_id,
                                          !.passphrase = h.passphrase]
                    IN  setup' = [setup EXCEPT
                                     !.config = h.config,
                                     !.status = h.status,
                                     !.last = m,
                                     !.wrote = IF h.wrote THEN Some(m) ELSE @,
                                     !.pc = IF h.raised THEN "failed"
                                            ELSE IF h.stop THEN "stopping"
                                            ELSE @]
    /\ UNCHANGED <<now, walletNames, file, op, variant, written, pc, cycle,
                   other>>

\* bot.polling raises while waiting for updates
SetupPollFail ==
    /\ setup.pc = "polling"
    /\ setup' = [setup EXCEPT !.pc = "failed"]
    /\ UNCHANGED <<now, walletNames, file, op, variant, written, pc, cycle,
                   other>>

\* bot.polling has returned or raised: return status[0]
SetupReturn ==
    /\ setup.pc \in {"stopping", "failed"}
    /\ setup' = [setup EXCEPT !.pc = "returned", !.ret = Some(setup.status)]
    /\ UNCHANGED <<now, walletNames, file, op, variant, written, pc, cycle,
                   other>>

InitSetup ==
    /\ now = 0
    /\ walletNames = <<>>
    /\ variant = "main"
    /\ file = NoFile
    /\ op = NoOp
    /\ written = FALSE
    /\ pc = "idle"
    /\ cycle = NoCycle
    /\ other = NoOther
    /\ \E bot \in BOOLEAN, chat_id \in ConfiguredChats, config \in Configs :
         setup = [NoSetup EXCEPT !.pc = "start", !.bot = bot,
                                 !.chat_id = chat_id, !.config = config,
                                 !.initial = config]

NextSetup ==
    \/ SetupStart
    \/ SetupMessage
    \/ SetupPollFail
    \/ SetupReturn

SpecSetup == InitSetup /\ [][NextSetup]_vars

\* ---- two runs overlapping on the names file ----
\* the other run's fetch_and_save_names reaches open(names_file, 'w'): the
\* file is truncated
OtherOpen ==
    /\ other.pc = "idle"
    /\ \E l \in Responses :
         LET result == FetchResult(variant, ListResponse(l), file, Len(l), now)
         IN  /\ result.raised = "none"
             /\ other' = [other EXCEPT !.pc = "truncated",
                                       !.names_data = result.data]
    /\ file' = [exists |-> TRUE, data |-> <<>>]
    /\ op' = NoOp
    /\ UNCHANGED <<now, walletNames, variant, written, pc, cycle, setup>>

\* json.dump has written a part of a non-empty mapping
OtherDump ==
    /\ other.pc = "truncated"
    /\ other.names_data # EmptyDict
    /\ other' = [other EXCEPT !.pc = "partial"]
    /\ op' = NoOp
    /\ UNCHANGED <<now, walletNames, file, variant, written, pc, cycle,
                   setup>>

\* the with block is left: the whole mapping is in the file
OtherClose ==
    /\ Torn
    /\ other' = [other EXCEPT !.pc = "idle", !.wrote = TRUE]
    /\ file' = [exists |-> TRUE, data |-> json_dump(other.names_data)]
    /\ written' = TRUE
    /\ op' = NoOp
    /\ UNCHANGED <<now, walletNames, variant, pc, cycle, setup>>

\* json.load of a torn file taken for an empty mapping   (mutant)
TornRead_empty(kind) ==
    /\ op' = [NoOp EXCEPT !.kind = kind, !.raised = "none",
                          !.fileBefore = file, !.t0 = now,
                          !.torn = other.pc]
    /\ UNCHANGED <<now, walletNames, file, variant, written, pc, cycle,
                   other, setup>>

\* json.load of an empty or half-written file raises JSONDecodeError, which
\* load_names, renew_names and the soonest functions do not catch
TornRead(kind) ==
    /\ op' = [NoOp EXCEPT !.kind = kind, !.raised = "JSONDecodeError",
                          !.fileBefore = file, !.t0 = now,
                          !.torn = other.pc]
    /\ UNCHANGED <<now, walletNames, file, variant, written, pc, cycle,
                   other, setup>>

RaceLoad ==
    /\ variant = "manager"
    /\ IF Torn THEN TornRead("load") ELSE Load

RaceRenew == IF Torn THEN TornRead("renew") ELSE Renew

RaceSoonest == IF Torn THEN TornRead("soonest") ELSE Soonest

InitRace ==
    /\ now = 0
    /\ walletNames = <<>>
    /\ variant \in {"manager", "utils"}
    /\ file \in FetchedStores(variant)
    /\ op = NoOp
    /\ written = file.exists
    /\ pc = "idle"
    /\ cycle = NoCycle
    /\ other \in {NoOther, [NoOther EXCEPT !.pc = "idle"]}
    /\ setup = NoSetup

NextRace ==
    \/ OtherOpen
    \/ OtherDump
    \/ OtherClose
    \/ RaceLoad
    \/ RaceRenew
    \/ RaceSoonest

SpecRace == InitRace /\ [][NextRace]_vars

\* ---- what the claims speak of ----
\* the stored mapping, as json.load reads it
Stored(f) == json_load(f.data)

\* the keys of a dict in insertion order
OrderedKeys(d) == [j \in 1..Len(d) |-> d[j][1]]

\* the stored expiration of name n
StoredExpiration(d, n) == fromisoformat(DictGet(DictGet(d, n), "expiration_date").s)

\* the names whose stored expiration is at or before t + RENEWAL_THRESHOLD_DAYS
Qualifying(d, t) ==
    {n \in DictKeys(d) :
        StoredExpiration(d, n) <= t + RENEWAL_THRESHOLD_DAYS * TicksPerDay}

\* the non-empty `name` values of the dict records of a list
NonEmptyNames(list) ==
    {list[j].name : j \in {m \in 1..Len(list) :
        list[m].kind = "dict" /\ list[m].hasName /\ list[m].name # ""}}

\* the `name` values of the dict records of a list
ListedNames(list) ==
    {list[j].name : j \in {m \in 1..Len(list) :
        list[m].kind = "dict" /\ list[m].hasName}}

FetchedList == op.kind = "fetch" /\ ~op.response.err

\* C1: after HandshakeNameManager.fetch_and_save_names on a list response,
\* the keys of the names file are exactly the non-empty names of the list's
\* dict records.
C1_KeysAreTheNonEmptyNames ==
    (FetchedList /\ variant = "manager")
        => /\ file.exists
           /\ DictKeys(Stored(file)) = NonEmptyNames(op.response.list)

\* C2: a renew call sends exactly one send_renew, with sign and broadcast
\* set, for each stored name whose expiration is at or before
\* now + RENEWAL_THRESHOLD_DAYS, and none for any other name.
C2_RenewsExactlyTheExpiring ==
    (op.kind = "renew" /\ op.fileBefore.exists)
        => LET d == Stored(op.fileBefore)
           IN  /\ op.raised = "none"
               /\ \A j \in 1..Len(op.calls) :
                     /\ op.calls[j].sign /\ op.calls[j].broadcast
                     /\ op.calls[j].name \in DictKeys(d)
               /\ \A n \in DictKeys(d) :
                     Cardinality({j \in 1..Len(op.calls) : op.calls[j].name = n})
                        = IF n \in Qualifying(d, op.t0) THEN 1 ELSE 0

\* a renew call met a name expiring exactly at the threshold, renewed it, and
\* left alone a name expiring later
C2_Witness ==
    /\ op.kind = "renew" /\ op.fileBefore.exists
    /\ LET d == Stored(op.fileBefore)
       IN  /\ \E j \in 1..Len(op.calls) :
                StoredExpiration(d, op.calls[j].name)
                   = op.t0 + RENEWAL_THRESHOLD_DAYS * TicksPerDay
           /\ \E n \in DictKeys(d) : n \notin Qualifying(d, op.t0)

\* C3: a send_renew response with an error field keeps the name out of the
\* returned list and stops nothing: every qualifying name is sent a request
\* and the returned list is the qualifying names without an error, in
\* mapping order.
C3_ErrorsAreSkippedNotFatal ==
    (op.kind = "renew" /\ op.fileBefore.exists)
        => LET d == Stored(op.fileBefore)
               q == Qualifying(d, op.t0)
               IsQ(n) == n \in q
               IsOk(n) == n \in q /\ n \notin op.errs
           IN  /\ [j \in 1..Len(op.calls) |-> op.calls[j].name]
                     = SelectSeq(OrderedKeys(d), IsQ)
               /\ op.ret = SelectSeq(OrderedKeys(d), IsOk)

\* a renew call whose first request failed and whose later request went out
\* and was returned
C3_Witness ==
    /\ op.kind = "renew"
    /\ Len(op.calls) >= 2
    /\ op.calls[1].name \in op.errs
    /\ op.ret = <<op.calls[2].name>>

\* C4: when get_wallet_names_own returns the error sentinel,
\* fetch_and_save_names raises RuntimeError and the names file is as it was.
C4_FetchErrorLeavesTheFile ==
    (op.kind = "fetch" /\ op.response.err)
        => /\ op.raised = "RuntimeError"
           /\ file = op.fileBefore

\* the fetch failed over a names file that held a name
C4_Witness ==
    /\ op.kind = "fetch" /\ op.response.err
    /\ op.fileBefore.exists /\ Len(op.fileBefore.data) > 0
    /\ variant = "manager"

\* a record that is a dict whose fields are present and well typed or missing
OnlyLacksFields(e) == e.kind = "dict" /\ e.stats \in {"absent", "dict"}

WellFormed(e) ==
    /\ e.kind = "dict" /\ e.hasName /\ e.name # ""
    /\ e.stats = "dict" /\ e.due.t = "int" /\ e.renewal.t = "int"

\* C5: on a list in which records lack fields (stats, stats.daysUntilExpire,
\* renewal or name), fetch_and_save_names of name_manager.py and of utils.py
\* returns without raising and persists every well-formed record.
C5_MissingFieldNeverFails ==
    (/\ FetchedList /\ variant \in {"manager", "utils"}
     /\ \A j \in 1..Len(op.response.list) : OnlyLacksFields(op.response.list[j]))
        => /\ op.raised = "none"
           /\ \A j \in 1..Len(op.response.list) :
                 WellFormed(op.response.list[j])
                    => op.response.list[j].name \in DictKeys(Stored(file))

\* record j of the list decides what is stored for its name: a dict with a
\* non-empty name, its stats absent or a dict, the last record of that name
Decides(list, j) ==
    /\ list[j].kind = "dict" /\ list[j].hasName /\ list[j].name # ""
    /\ list[j].stats \in {"absent", "dict"}
    /\ \A m \in (j + 1)..Len(list) :
          ~(list[m].kind = "dict" /\ list[m].hasName
            /\ list[m].name = list[j].name)

\* C6: after a fetch that returned, a record without stats.daysUntilExpire
\* is stored with expiration = fetch time + 730 days (at least 729 whole
\* days from now) and days_until_expire null; a record with
\* daysUntilExpire = d is stored with expiration = fetch time + d days.  The
\* fetch time of a record lies between the call and the return.
C6_FallbackIs730Days ==
    (FetchedList /\ op.raised = "none")
        => \A j \in 1..Len(op.response.list) :
              Decides(op.response.list, j)
                 => LET e == op.response.list[j]
                        d == Stored(file)
                        days == IF e.due.t = "int" THEN e.due.i ELSE 730
                    IN  /\ e.name \in DictKeys(d)
                        /\ \E t \in op.t0..now :
                              DictGet(DictGet(d, e.name), "expiration_date")
                                 = PyStr(isoformat(t + days * TicksPerDay))
                        /\ DictGet(DictGet(d, e.name), "days_until_expire")
                              = (IF e.due.t = "int" THEN PyInt(e.due.i)
                                 ELSE PyNone)
                        /\ e.due.t # "int"
                              => (StoredExpiration(d, e.name) - now)
                                    \div TicksPerDay >= 729

\* a fetch during which the clock ticked stored a record without
\* daysUntilExpire after the tick
C6_Witness ==
    /\ FetchedList /\ op.raised = "none" /\ now > op.t0
    /\ \E j \in 1..Len(op.response.list) :
          /\ Decides(op.response.list, j)
          /\ op.response.list[j].due.t # "int"
          /\ StoredExpiration(Stored(file), op.response.list[j].name)
                = now + 730 * TicksPerDay
          /\ (StoredExpiration(Stored(file), op.response.list[j].name) - op.t0)
                \div TicksPerDay = 730

\* C7: a successful fetch replaces the stored mapping: the store holds only
\* names of the response just fetched, and a name stored before and absent
\* from that response is gone.
C7_FetchReplacesTheStore ==
    (FetchedList /\ op.raised = "none")
        => /\ DictKeys(Stored(file)) \subseteq ListedNames(op.response.list)
           /\ \A n \in DictKeys(Stored(op.fileBefore)) :
                 n \notin ListedNames(op.response.list)
                    => n \notin DictKeys(Stored(file))

\* a fetch removed a name that was stored and kept another
C7_Witness ==
    /\ FetchedList /\ op.raised = "none"
    /\ \E n \in DictKeys(Stored(op.fileBefore)) : n \notin DictKeys(Stored(file))
    /\ Stored(file) # EmptyDict

\* the three fields of a stored record, a JSON object
HasTheThreeFields(obj) ==
    /\ Len(obj) = 3
    /\ \E x, y, z \in 1..3 :
          /\ obj[x][1] = "expiration_date" /\ obj[x][2].t = "string"
          /\ obj[y][1] = "renewal_height" /\ obj[y][2].t = "number"
          /\ obj[z][1] = "days_until_expire"
          /\ obj[z][2].t \in {"number", "null"}

\* C8: every record of the names file, whichever variant wrote it, has
\* exactly the fields expiration_date (string), renewal_height (integer) and
\* days_until_expire (integer or null).
C8_RecordsHaveThreeFields ==
    file.exists => \A j \in 1..Len(file.data) : HasTheThreeFields(file.data[j][2])

\* C9: load_names right after a successful fetch_and_save_names returns the
\* mapping that fetch_and_save_names built.
C9_LoadReturnsWhatFetchBuilt ==
    (op.kind = "load" /\ op.afterFetch)
        => /\ op.raised = "none"
           /\ op.loaded = op.built

\* a load after a fetch that stored two names, one with a null
\* days_until_expire
C9_Witness ==
    /\ op.kind = "load" /\ op.afterFetch
    /\ Len(op.loaded) = 2
    /\ \E n \in DictKeys(op.loaded) :
          DictGet(DictGet(op.loaded, n), "days_until_expire") = PyNone

NothingToRenew == ~op.fileBefore.exists \/ op.fileBefore.data = <<>>

\* C10 as stated: every renew variant returns [] without raising, and sends
\* no request, when the names file is empty or absent.
C10_EveryVariantReturnsEmpty ==
    (op.kind = "renew" /\ NothingToRenew)
        => op.raised = "none" /\ op.ret = <<>> /\ op.calls = <<>>

\* C10 amended: on an empty or absent names file no variant sends a request
\* or returns a name; renew_expiring_names of name_manager.py returns []
\* without raising in both cases, renew_names of utils.py and main.py
\* returns [] on an empty mapping and raises FileNotFoundError on an absent
\* file.
C10_EmptyOrAbsentRenewsNothing ==
    (op.kind = "renew" /\ NothingToRenew)
        => /\ op.ret = <<>> /\ op.calls = <<>>
           /\ op.raised = (IF variant # "manager" /\ ~op.fileBefore.exists
                           THEN "FileNotFoundError" ELSE "none")

\* renew_expiring_names ran with no names file
C10_Witness ==
    /\ op.kind = "renew" /\ ~op.fileBefore.exists
    /\ variant = "manager" /\ op.raised = "none" /\ op.ret = <<>>

\* the least stored expiration of a non-empty mapping
MinExpiration(d) ==
    CHOOSE x \in {StoredExpiration(d, n) : n \in DictKeys(d)} :
        \A n \in DictKeys(d) : x <= StoredExpiration(d, n)

SoonestOnNames ==
    /\ op.kind = "soonest" /\ op.fileBefore.exists
    /\ Stored(op.fileBefore) # EmptyDict

\* C11: on a non-empty mapping the soonest-expiring function returns a name
\* whose stored expiration is at most that of every record, and on a tie the
\* first such record in mapping order.
C11_SoonestIsTheFirstMinimum ==
    SoonestOnNames
        => LET d == Stored(op.fileBefore)
               ks == OrderedKeys(d)
           IN  /\ op.soonest.name # None
               /\ op.soonest.name[1] \in DictKeys(d)
               /\ StoredExpiration(d, op.soonest.name[1]) = MinExpiration(d)
               /\ \A x, y \in 1..Len(ks) :
                     (ks[y] = op.soonest.name[1] /\ x < y)
                        => StoredExpiration(d, ks[x]) > MinExpiration(d)

\* two stored names expire at the same time and the first one is returned
C11_Witness ==
    /\ SoonestOnNames
    /\ LET d == Stored(op.fileBefore)
       IN  /\ Len(d) = 2
           /\ StoredExpiration(d, d[1][1]) = StoredExpiration(d, d[2][1])
           /\ op.soonest.name = Some(d[1][1])

\* C12: the soonest-expiring function never raises, whatever the names file
\* (absent, empty, written by fetch_and_save_names or by hand with only an
\* expiration_date per record), and on an absent or empty mapping it returns
\* name None, expiration_date None, days_until_expire None.
C12_SoonestNeverFails ==
    op.kind = "soonest"
        => /\ op.raised = "none"
           /\ op.soonest.raised = "none"
           /\ (~op.fileBefore.exists \/ op.fileBefore.data = <<>>)
                 => /\ op.soonest.name = None
                    /\ op.soonest.expiration_date = None
                    /\ op.soonest.days_until_expire = None

\* find_soonest_expiring_name ran with no names file
C12_Witness ==
    /\ op.kind = "soonest" /\ ~op.fileBefore.exists
    /\ variant = "utils"
    /\ op.soonest.name = None /\ op.raised = "none"

\* C13: days_until_expire is the number of whole days from now to the least
\* expiration, rounded down: 4 or 5 for a record expiring 5 days after a
\* clock at most a day back, negative exactly when the expiration is in the
\* past, -1 for a name that expired less than a day ago.
C13_DaysAreFloored ==
    SoonestOnNames
        => LET delta == MinExpiration(Stored(op.fileBefore)) - op.t0
           IN  /\ op.soonest.days_until_expire # None
               /\ LET q == op.soonest.days_until_expire[1]
                  IN  /\ q * TicksPerDay <= delta
                      /\ delta < (q + 1) * TicksPerDay
                      /\ (q < 0) <=> (delta < 0)
                      /\ (delta < 0 /\ 0 - delta < TicksPerDay) => q = -1
                      /\ (4 * TicksPerDay < delta /\ delta <= 5 * TicksPerDay)
                            => q \in {4, 5}

\* the soonest name expired less than a day ago
C13_Witness ==
    /\ SoonestOnNames
    /\ MinExpiration(Stored(op.fileBefore)) < op.t0
    /\ op.t0 - MinExpiration(Stored(op.fileBefore)) < TicksPerDay
    /\ op.soonest.days_until_expire = Some(-1)

\* C14: load_names raises FileNotFoundError as long as no fetch_and_save_names
\* has written the names file, and returns the stored mapping once one has.
C14_LoadNeedsAFetch ==
    op.kind = "load"
        => IF written
           THEN op.raised = "none" /\ op.loaded = Stored(file)
           ELSE op.raised = "FileNotFoundError"

\* load_names ran before any fetch had written the file
C14_Witness ==
    /\ op.kind = "load" /\ ~written
    /\ op.raised = "FileNotFoundError"

\* the outcomes of each call of the status summary that are not the sentinel
NodeOK == {x \in NodeInfos : ~x.error}
BalanceOK == {x \in BalanceInfos : ~x.error}
AccountOK == {x \in AccountInfos : ~x.error}

\* C15: whatever calls of the status summary return the error sentinel, it
\* returns without raising, the field of each failed call is "Error" and the
\* field of each call that succeeded is what it is when all three succeed.
C15_StatusIsolatesFailures ==
    op.kind = "status"
        => /\ op.status.raised = "none"
           /\ op.node_info.error => op.status.block_height = PyStr("Error")
           /\ op.balance_info.error => op.status.balance = PyStr("Error")
           /\ op.acct_info.error
                 => /\ op.status.receiving_address = ErrorStr
                    /\ variant # "main"
                          => op.status.full_receiving_address = Some(ErrorStr)
           /\ \A n \in NodeOK, b \in BalanceOK, a \in AccountOK :
                 LET n1 == IF op.node_info.error THEN n ELSE op.node_info
                     b1 == IF op.balance_info.error THEN b ELSE op.balance_info
                     a1 == IF op.acct_info.error THEN a ELSE op.acct_info
                     all == StatusResult(variant, n1, b1, a1)
                 IN  /\ ~op.node_info.error
                          => op.status.block_height = all.block_height
                     /\ ~op.balance_info.error
                          => op.status.balance = all.balance
                     /\ ~op.acct_info.error
                          => /\ op.status.receiving_address
                                    = all.receiving_address
                             /\ op.status.full_receiving_address
                                    = all.full_receiving_address

\* the node call failed alone: its field is "Error", the others have values
C15_Witness ==
    /\ op.kind = "status"
    /\ op.node_info.error /\ ~op.balance_info.error /\ ~op.acct_info.error
    /\ op.status.block_height = PyStr("Error")
    /\ op.status.balance = PyFloat(123500000)
    /\ op.status.full_receiving_address = Some(MockAddress)

\* C16: the displayed balance is (unconfirmed - lockedUnconfirmed) / 1,000,000
\* of the integer fields of the balance response, an absent field counting
\* as 0; unconfirmed 123500000 and lockedUnconfirmed 0 give 123.5.
C16_BalanceIsSpendableInUnits ==
    (op.kind = "status" /\ ~op.balance_info.error)
        => LET u == IF op.balance_info.unconfirmed = Absent THEN 0
                    ELSE op.balance_info.unconfirmed.i
               l == IF op.balance_info.lockedUnconfirmed = Absent THEN 0
                    ELSE op.balance_info.lockedUnconfirmed.i
               b == op.status.balance
           IN  /\ b.t = "float"
               /\ (IF b.neg THEN 0 - 1 ELSE 1) * (b.whole * 1000000 + b.micro)
                      = u - l
               /\ b.micro < 1000000
               /\ (u = 123500000 /\ l = 0)
                     => (~b.neg /\ b.whole = 123 /\ b.micro = 500000)

\* 123500000 unconfirmed and nothing locked: 123.5 is displayed
C16_Witness ==
    /\ op.kind = "status" /\ ~op.balance_info.error
    /\ op.balance_info.unconfirmed = JInt(123500000)
    /\ op.balance_info.lockedUnconfirmed = JInt(0)
    /\ op.status.balance.whole = 123 /\ op.status.balance.micro = 500000

\* the first answer to the request that has just returned
FirstOutcome == op.request.outcomes[1]

C18_ServerErrorsAreRetried ==
    op.kind = "request"
        => /\ (FirstOutcome.conn /\ FirstOutcome.status \in STATUS_FORCELIST)
                 => /\ op.request.attempts > 1
                    /\ op.request.attempts <= 1 + RETRY_TOTAL
           /\ (FirstOutcome.conn /\ FirstOutcome.status = 200)
                 => op.request.attempts = 1

\* the whole try body of one cycle
AllSteps == <<"fetch", "renew", "status">>

\* C19: send_telegram_message never raises to its caller: without a token or
\* a chat id it posts nothing and returns, a failed post is only logged, and
\* a cycle whose summary could not be delivered still ends as a cycle without
\* an error, all its steps run.
C19_NotificationIsFireAndForget ==
    /\ pc # "crashed"
    /\ \A j \in 1..Len(cycle.sent) :
          LET r == cycle.sent[j].send
          IN  /\ r.raised = "none"
              /\ r.posted <=> cycle.configured
              /\ r.delivered => r.posted
              /\ ~r.delivered => r.logged
    /\ (pc = "sleep" /\ cycle.sent # <<>> /\ cycle.sent[1].kind = "summary")
          => cycle.error = "none" /\ cycle.steps = AllSteps

\* the summary was posted, the post failed, and the cycle went on to sleep
C19_Witness ==
    /\ pc = "sleep" /\ cycle.configured
    /\ Len(cycle.sent) = 1 /\ cycle.sent[1].kind = "summary"
    /\ cycle.sent[1].send.posted /\ ~cycle.sent[1].send.delivered
    /\ cycle.error = "none"

\* what holds at each position of a cycle of main.main
CycleInv ==
    /\ pc # "crashed"
    /\ Len(cycle.sent) <= 1
    /\ pc \in {"fetch", "renew", "status", "notify", "error"}
          => cycle.sent = <<>>
    /\ pc = "error"
          => /\ cycle.error # "none"
             /\ op.raised = cycle.error
             /\ cycle.steps # <<>>
             /\ cycle.steps[Len(cycle.steps)] = op.kind
    /\ pc = "sleep"
          => /\ Len(cycle.sent) = 1
             /\ cycle.error = "none"
                   => /\ cycle.sent[1].kind = "summary"
                      /\ cycle.steps = AllSteps
             /\ cycle.error # "none"
                   => /\ cycle.sent[1].kind = "error"
                      /\ \E n \in 1..Len(AllSteps) :
                            cycle.steps = SubSeq(AllSteps, 1, n)

\* the handler goes on to the delay, and the delay to a new cycle
CycleStep ==
    /\ pc = "error" => pc' = "sleep"
    /\ pc = "sleep" => /\ pc' = "fetch"
                       /\ cycle'.steps = <<>> /\ cycle'.sent = <<>>
                       /\ cycle'.error = "none"

\* C20: in main.main an exception raised by a step of the cycle skips the
\* steps after it, reaches the handler, which sends one error notification,
\* and the loop sleeps and starts the next cycle; every cycle attempts
\* exactly one notification, the summary or the error report.
C20_FailureAbortsTheCycleOnly == []CycleInv /\ [][CycleStep]_vars

\* a fetch raised: no other step ran, one error report, the loop sleeps
C20_Witness ==
    /\ pc = "sleep" /\ cycle.error = "RuntimeError"
    /\ cycle.steps = <<"fetch">>
    /\ Len(cycle.sent) = 1 /\ cycle.sent[1].kind = "error"

\* the names send_renew was called for in this cycle
CycleCalls == {cycle.calls[j].name : j \in 1..Len(cycle.calls)}

\* C21: in every cycle of main.main the steps run in the order fetch, renew,
\* status, notify; send_renew is called only after the fetch of the same
\* cycle has written the names file, on that very file, and never in a cycle
\* whose fetch raised.
C21_RenewOnlyAfterTheCyclesFetch ==
    /\ \E n \in 0..Len(AllSteps) : cycle.steps = SubSeq(AllSteps, 1, n)
    /\ pc = "renew" => cycle.steps = <<"fetch">>
    /\ pc = "status" => cycle.steps = <<"fetch", "renew">>
    /\ pc = "notify" => cycle.steps = AllSteps
    /\ cycle.sent # <<>> /\ cycle.sent[1].kind = "summary"
          => cycle.steps = AllSteps
    /\ (cycle.steps # <<>> /\ cycle.wrote = None)
          => cycle.calls = <<>> /\ cycle.steps = <<"fetch">>
    /\ cycle.calls # <<>> => cycle.wrote # None
    /\ (op.kind = "renew" /\ pc # "idle")
          => cycle.wrote = Some(op.fileBefore) /\ file = op.fileBefore

\* a renewal request was sent on the file the same cycle's fetch wrote
C21_Witness ==
    /\ pc = "status" /\ op.kind = "renew"
    /\ cycle.calls # <<>>
    /\ cycle.wrote = Some(file)

\* a cycle is about to run its first step
CycleStarts == pc = "fetch" /\ cycle.steps = <<>>

\* C22: once in its loop main.main never stops on its own: every cycle,
\* whether it returned or raised, is followed by the sleep and by the start
\* of another cycle, so a scheduled process starts infinitely many cycles and
\* never reaches a terminated state.
C22_TheLoopNeverStops ==
    /\ []<>CycleStarts
    /\ (pc = "error") ~> (pc = "sleep")
    /\ (pc = "sleep") ~> CycleStarts
    /\ [](pc # "crashed")

\* a cycle starts after the sleep although no cycle before it succeeded
C22_Witness ==
    /\ CycleStarts /\ now > 0
    /\ ~written /\ op = NoOp

\* C23: no error is silently dropped in function.renew_names_in_list: a
\* renewal request whose response reports an error is logged or notified,
\* and its name is neither returned nor announced as renewed.
C23_LegacyErrorsAreReported ==
    op.kind = "legacy_renew"
        => \A n \in op.legacy.errs :
              /\ n \in op.legacy.logged
              /\ \A j \in 1..Len(op.legacy.renew) : op.legacy.renew[j] # n
              /\ \A j \in 1..Len(op.legacy.message) : op.legacy.message[j] # n

\* a read of the names file has just returned
ReadReturned == op.kind \in {"load", "renew", "soonest"}

\* C24: the names file is read and written without a lock: with a second run
\* a reader can find the file truncated or half written, and then fails with
\* a decode error and acts on nothing, or finds the other run's mapping and
\* acts on it; with a single run a reader never finds the file torn.
C24_OnlyASecondRunTearsTheFile ==
    ReadReturned
        => /\ other.pc = "none"
                 => op.torn = "no" /\ op.raised # "JSONDecodeError"
           /\ op.torn # "no"
                 => /\ op.raised = "JSONDecodeError"
                    /\ op.calls = <<>> /\ op.ret = <<>>
                    /\ op.loaded = EmptyDict
           /\ (op.torn = "no" /\ other.wrote /\ other.pc = "idle")
                 => op.fileBefore.data = json_dump(other.names_data)
           /\ op.raised = "JSONDecodeError" => op.torn # "no"

\* a renew found the file half written by the other run
C24_Witness ==
    /\ op.kind = "renew" /\ op.torn = "partial"
    /\ op.raised = "JSONDecodeError"
    /\ other.pc = "partial"

CycleRenewed == pc = "done" /\ op.kind = "renew" /\ op.raised = "none"

\* C26: in a cycle of fetch followed by renew, every name the node reports
\* with daysUntilExpire at most RENEWAL_THRESHOLD_DAYS is sent a renewal
\* request in that cycle, whatever time passed between the two steps.
C26_DueNamesAreRenewedInTheCycle ==
    CycleRenewed
        => \A j \in 1..Len(walletNames) :
              (/\ Decides(walletNames, j)
               /\ walletNames[j].stats = "dict"
               /\ walletNames[j].due.t = "int"
               /\ walletNames[j].due.i <= RENEWAL_THRESHOLD_DAYS)
                 => walletNames[j].name \in CycleCalls

\* a name reported 30 days from expiry is renewed a tick after the fetch
C26_Witness ==
    /\ CycleRenewed /\ now = cycle.fetched_at + 1
    /\ \E j \in 1..Len(walletNames) :
          /\ Decides(walletNames, j)
          /\ walletNames[j].stats = "dict"
          /\ walletNames[j].due = JInt(30)
          /\ walletNames[j].name \in CycleCalls

\* the record of the list has no stats.daysUntilExpire
Undated(e) == e.stats = "absent" \/ (e.stats = "dict" /\ e.due.t # "int")

\* C28: a name whose record lacks stats.daysUntilExpire is stored with the
\* expiration fetch time + 730 days, and is sent no renewal request by a
\* renew step that runs less than 730 - RENEWAL_THRESHOLD_DAYS days after the
\* fetch, the threshold being below 730.
C28_FallbackNamesAreLeftAlone ==
    (/\ CycleRenewed
     /\ RENEWAL_THRESHOLD_DAYS < FALLBACK_DAYS
     /\ op.t0 - cycle.fetched_at < (FALLBACK_DAYS - RENEWAL_THRESHOLD_DAYS) * TicksPerDay)
        => \A j \in 1..Len(walletNames) :
              (Decides(walletNames, j) /\ Undated(walletNames[j]))
                 => /\ walletNames[j].name \notin CycleCalls
                    /\ walletNames[j].name \in DictKeys(Stored(file))
                    /\ StoredExpiration(Stored(file), walletNames[j].name)
                          >= cycle.fetched_at + FALLBACK_DAYS * TicksPerDay

\* the renew step ran one tick short of 700 days after the fetch and left
\* the undated name alone
C28_Witness ==
    /\ CycleRenewed
    /\ op.t0 - cycle.fetched_at
          = (FALLBACK_DAYS - RENEWAL_THRESHOLD_DAYS) * TicksPerDay - 1
    /\ \E j \in 1..Len(walletNames) :
          /\ Decides(walletNames, j) /\ Undated(walletNames[j])
          /\ walletNames[j].name \notin CycleCalls

\* the send_renew calls of a renew call, as a set of names
CallsOf(o) == {o.calls[j].name : j \in 1..Len(o.calls)}

\* C27: a renew call leaves the names file as it was, whether its renewals
\* succeed or fail, and a renew call that follows another with no fetch in
\* between and the clock unchanged sends send_renew for the same names.
C27_RenewLeavesTheStoreAlone ==
    (op.kind = "renew" /\ pc = "idle")
        => /\ file = op.fileBefore
           /\ op.before # None
                 => /\ op.raised = op.before[1].raised
                    /\ CallsOf(op) = CallsOf(op.before[1])

\* a second renew call in a row has sent for two names, and one of its
\* requests failed
C27_Witness ==
    /\ op.kind = "renew" /\ pc = "idle" /\ op.before # None
    /\ Len(op.calls) = 2
    /\ op.errs # {}
    /\ Len(op.ret) = 1
    /\ file = op.fileBefore

\* the names listed by a message, in the order of their lines
RECURSIVE NamesInMessage(_)
NamesInMessage(message) ==
    IF message = <<>> THEN <<>>
    ELSE IF Head(message)[1] = "- "
    THEN <<Head(message)[2]>> \o NamesInMessage(Tail(message))
    ELSE NamesInMessage(Tail(message))

SaysNothingRenewed(message) ==
    \E j \in 1..Len(message) : message[j] = <<"No names required renewal">>

\* C29: the summary of a cycle lists exactly the names renew_names returned,
\* and has the line "No names required renewal" exactly when that list is
\* empty, also when requests were sent and each of them came back with an
\* error.
C29_SummaryListsTheReturnedNames ==
    \A j \in 1..Len(cycle.sent) :
        cycle.sent[j].kind = "summary"
           => /\ NamesInMessage(cycle.sent[j].message) = cycle.renewed_names
              /\ SaysNothingRenewed(cycle.sent[j].message)
                    <=> cycle.renewed_names = <<>>
              /\ (cycle.calls # <<>> /\ cycle.renewed_names = <<>>)
                    => SaysNothingRenewed(cycle.sent[j].message)

\* a summary was sent for a cycle whose only renewal request failed
C29_Witness ==
    /\ pc = "sleep"
    /\ Len(cycle.sent) = 1 /\ cycle.sent[1].kind = "summary"
    /\ cycle.calls # <<>> /\ cycle.renewed_names = <<>>
    /\ SaysNothingRenewed(cycle.sent[1].message)

\* the message is one the claim lets write: it comes from the configured
\* chat, has a colon, and its unlock_wallet result has success true
MayWrite(m) ==
    /\ str(m.chat) = str(setup.chat_id)
    /\ \E j \in 1..Len(m.text) : m.text[j] = ":"
    /\ m.result.kind = "dict" /\ m.result.success = "True"

SetupInv ==
    /\ setup.pc = "none" => setup = NoSetup
    /\ setup.pc # "none" =>
         /\ setup.wrote = None => setup.config = setup.initial
         /\ setup.wrote # None =>
              /\ MayWrite(setup.wrote[1])
              /\ setup.config = ConfigWith(setup.wrote[1].wallet_id,
                                           setup.wrote[1].passphrase)
              /\ setup.wrote[1].wallet_id
                    = strip(split_colon(strip(setup.wrote[1].text))[1])
              /\ setup.wrote[1].passphrase
                    = strip(split_colon(strip(setup.wrote[1].text))[2])
         /\ setup.ret = Some(TRUE) => setup.wrote # None

\* a step that handles a message which may not write
SetupStep ==
    (setup'.last.seq # setup.last.seq /\ ~MayWrite(setup'.last)) =>
        /\ setup'.config = setup.config
        /\ setup'.status = setup.status
        /\ setup'.wrote = setup.wrote
        /\ ~setup'.last.raised => setup'.pc = setup.pc

\* C30: config.json is written only by a message of the configured chat of
\* the form id:passphrase whose unlock_wallet result has success true, with
\* the id and the passphrase of the message; any other message leaves the
\* file and status[0] alone and does not stop the polling; and the function
\* returns True only after such a write.
C30_SetupWritesOnlyVerifiedInput == []SetupInv /\ [][SetupStep]_vars

\* the function has returned True after writing the id and the passphrase
\* of a message typed with blanks around them
C30_Witness ==
    /\ setup.pc = "returned" /\ setup.ret = Some(TRUE)
    /\ setup.wrote # None
    /\ setup.wrote[1].text = <<" ", "w", " ", ":", " ", "p", " ">>
    /\ setup.config = ConfigWith(<<"w">>, <<"p">>)
    /\ setup.last.outcome = "denied"

====
